---- MODULE Spec2Model ----
(***************************************************************************)
(* Demand forecasting pipeline of src/appa.py (driven by src/app.py):      *)
(* the forecast columns, the error metrics, the best-method selection and  *)
(* the next-week projection, over a pandas DataFrame.                      *)
(*                                                                         *)
(* Numbers are IEEE-754 binary64 values, as Python's float and numpy's     *)
(* float64 are: every arithmetic operation is the exact result rounded to  *)
(* 53 significant bits, ties to even.  A finite value is sign * m * 2^e    *)
(* with m an odd natural number (or 0) kept as a little-endian sequence of *)
(* base-2^15 limbs, so that equal numbers are equal records.  The values   *)
(* the model reaches stay far from the overflow and subnormal ranges.      *)
(***************************************************************************)
EXTENDS Integers, Sequences, FiniteSets, TLC

\* ------------------------------------------------------------------------
\* Natural numbers of arbitrary size (little-endian limbs)

LimbBits == 15

Base == 32768

Precision == 53

RECURSIVE Pow2(_)
Pow2(k) == IF k = 0 THEN 1 ELSE 2 * Pow2(k - 1)

RECURSIVE BNorm(_)
BNorm(a) ==
    IF a = <<>> THEN <<>>
    ELSE IF a[Len(a)] = 0 THEN BNorm(SubSeq(a, 1, Len(a) - 1))
    ELSE a

BFromInt(n) == IF n = 0 THEN <<>> ELSE IF n < Base THEN <<n>> ELSE <<n % Base, n \div Base>>

Limb(a, i) == IF i <= Len(a) THEN a[i] ELSE 0

BMax(i, j) == IF i >= j THEN i ELSE j

RECURSIVE BAddFrom(_, _, _, _)
BAddFrom(a, b, i, carry) ==
    IF i > Len(a) /\ i > Len(b)
    THEN IF carry = 0 THEN <<>> ELSE <<carry>>
    ELSE LET s == Limb(a, i) + Limb(b, i) + carry
         IN  <<s % Base>> \o BAddFrom(a, b, i + 1, s \div Base)

BAdd(a, b) == BAddFrom(a, b, 1, 0)

\* a - b, for a >= b
RECURSIVE BSubFrom(_, _, _, _)
BSubFrom(a, b, i, borrow) ==
    IF i > Len(a) THEN <<>>
    ELSE LET s == a[i] - Limb(b, i) - borrow
         IN  IF s < 0 THEN <<s + Base>> \o BSubFrom(a, b, i + 1, 1)
             ELSE <<s>> \o BSubFrom(a, b, i + 1, 0)

BSub(a, b) == BNorm(BSubFrom(a, b, 1, 0))

RECURSIVE BCmpFrom(_, _, _)
BCmpFrom(a, b, i) ==
    IF i = 0 THEN 0
    ELSE IF a[i] > b[i] THEN 1
    ELSE IF a[i] < b[i] THEN -1
    ELSE BCmpFrom(a, b, i - 1)

\* -1, 0, 1 as a < b, a = b, a > b
BCmp(a, b) ==
    IF Len(a) > Len(b) THEN 1
    ELSE IF Len(a) < Len(b) THEN -1
    ELSE BCmpFrom(a, b, Len(a))

RECURSIVE BMulSmallFrom(_, _, _, _)
BMulSmallFrom(a, k, i, carry) ==
    IF i > Len(a)
    THEN IF carry = 0 THEN <<>> ELSE <<carry>>
    ELSE LET p == a[i] * k + carry
         IN  <<p % Base>> \o BMulSmallFrom(a, k, i + 1, p \div Base)

\* a * k, for 0 <= k < Base
BMulSmall(a, k) == IF k = 0 THEN <<>> ELSE BMulSmallFrom(a, k, 1, 0)

RECURSIVE BMulFrom(_, _, _)
BMulFrom(a, b, j) ==
    IF j > Len(b) THEN <<>>
    ELSE BAdd(BMulSmall(a, b[j]), <<0>> \o BMulFrom(a, b, j + 1))

BMul(a, b) == BNorm(BMulFrom(a, b, 1))

RECURSIVE BDivSmallFrom(_, _, _, _)
BDivSmallFrom(a, d, i, rem) ==
    IF i = 0 THEN <<>>
    ELSE LET cur == rem * Base + a[i]
         IN  BDivSmallFrom(a, d, i - 1, cur % d) \o <<cur \div d>>

\* floor(a / d), for 0 < d < Base
BDivSmall(a, d) == BNorm(BDivSmallFrom(a, d, Len(a), 0))

Zeros(n) == [i \in 1..n |-> 0]

\* a * 2^k
BShl(a, k) ==
    IF a = <<>> THEN <<>>
    ELSE Zeros(k \div LimbBits) \o BMulSmall(a, Pow2(k % LimbBits))

\* floor(a / 2^k)
BShr(a, k) ==
    LET drop == k \div LimbBits
    IN  IF drop >= Len(a) THEN <<>>
        ELSE BDivSmall(SubSeq(a, drop + 1, Len(a)), Pow2(k % LimbBits))

RECURSIVE IntBitLen(_)
IntBitLen(n) == IF n = 0 THEN 0 ELSE 1 + IntBitLen(n \div 2)

BBitLen(a) == IF a = <<>> THEN 0 ELSE (Len(a) - 1) * LimbBits + IntBitLen(a[Len(a)])

BIsOdd(a) == a # <<>> /\ a[1] % 2 = 1

RECURSIVE IntTrailingZeros(_)
IntTrailingZeros(n) == IF n % 2 = 1 THEN 0 ELSE 1 + IntTrailingZeros(n \div 2)

\* the number of trailing zero bits of a # 0
RECURSIVE BTrailingZeros(_, _)
BTrailingZeros(a, i) ==
    IF a[i] = 0 THEN LimbBits + BTrailingZeros(a, i + 1)
    ELSE IntTrailingZeros(a[i])

\* ------------------------------------------------------------------------
\* binary64 values

NaN == [k |-> "nan"]

Zero == [k |-> "num", s |-> 1, m |-> <<>>, e |-> 0]

IsNaN(x) == x.k = "nan"

IsZero(x) == x.k = "num" /\ x.m = <<>>

\* sign * m * 2^e with the trailing zero bits of m moved into the exponent
Canonical(sign, m, e) ==
    IF m = <<>> THEN Zero
    ELSE LET t == BTrailingZeros(m, 1)
         IN  [k |-> "num", s |-> sign, m |-> BShr(m, t), e |-> e + t]

\* sign * m * 2^e rounded to Precision bits, ties to even
Round(sign, m, e) ==
    LET len == BBitLen(m)
    IN  IF len <= Precision THEN Canonical(sign, m, e)
        ELSE LET cut  == len - Precision
                 q    == BShr(m, cut)
                 r    == BSub(m, BShl(q, cut))
                 half == BShl(<<1>>, cut - 1)
                 c    == BCmp(r, half)
                 up   == c > 0 \/ (c = 0 /\ BIsOdd(q))
             IN  Canonical(sign, IF up THEN BAdd(q, <<1>>) ELSE q, e + cut)

FromInt(n) == IF n < 0 THEN Canonical(-1, BFromInt(-n), 0) ELSE Canonical(1, BFromInt(n), 0)

FNeg(x) == IF IsNaN(x) \/ IsZero(x) THEN x ELSE [x EXCEPT !.s = -x.s]

FAbs(x) == IF IsNaN(x) THEN x ELSE [x EXCEPT !.s = 1]

FAdd(x, y) ==
    IF IsNaN(x) \/ IsNaN(y) THEN NaN
    ELSE IF IsZero(x) THEN y
    ELSE IF IsZero(y) THEN x
    ELSE LET e  == IF x.e <= y.e THEN x.e ELSE y.e
             mx == BShl(x.m, x.e - e)
             my == BShl(y.m, y.e - e)
             c  == BCmp(mx, my)
         IN  IF x.s = y.s THEN Round(x.s, BAdd(mx, my), e)
             ELSE IF c = 0 THEN Zero
             ELSE IF c > 0 THEN Round(x.s, BSub(mx, my), e)
             ELSE Round(y.s, BSub(my, mx), e)

FSub(x, y) == FAdd(x, FNeg(y))

FMul(x, y) ==
    IF IsNaN(x) \/ IsNaN(y) THEN NaN
    ELSE IF IsZero(x) \/ IsZero(y) THEN Zero
    ELSE Round(x.s * y.s, BMul(x.m, y.m), x.e + y.e)

\* the next base-2^15 quotient digit of rem * Base / d, for rem < d and the
\* top limb of d at least Base / 2: an estimate from the leading limbs,
\* lowered until digit * d fits
RECURSIVE DivDigit(_, _, _)
DivDigit(r, d, guess) ==
    IF BCmp(BMulSmall(d, guess), r) > 0 THEN DivDigit(r, d, guess - 1) ELSE guess

\* n further quotient digits of rem / d: <<quotient, remainder>>
RECURSIVE DivDigits(_, _, _, _)
DivDigits(rem, d, q, n) ==
    IF n = 0 THEN <<q, rem>>
    ELSE LET r     == IF rem = <<>> THEN <<>> ELSE <<0>> \o rem
             top   == Limb(r, Len(d) + 1) * Base + Limb(r, Len(d))
             est   == top \div d[Len(d)]
             digit == DivDigit(r, d, IF est >= Base THEN Base - 1 ELSE est)
         IN  DivDigits(BSub(r, BMulSmall(d, digit)), d, <<digit>> \o q, n - 1)

QuotientDigits == 4

\* x / y for y # 0; 0/0 is NaN as in numpy
FDiv(x, y) ==
    IF IsNaN(x) \/ IsNaN(y) THEN NaN
    ELSE IF IsZero(y) THEN NaN
    ELSE IF IsZero(x) THEN Zero
    ELSE LET lx   == BBitLen(x.m)
             ly   == BBitLen(y.m)
             len  == BMax(lx, ly)
             norm == (LimbBits - (len % LimbBits)) % LimbBits
             nx   == BShl(x.m, len - lx + norm)
             ny   == BShl(y.m, len - ly + norm)
             ge   == BCmp(nx, ny) >= 0
             qr   == DivDigits(IF ge THEN BSub(nx, ny) ELSE nx, ny,
                               IF ge THEN <<1>> ELSE <<>>, QuotientDigits)
             m    == BAdd(BMulSmall(BNorm(qr[1]), 2), IF qr[2] = <<>> THEN <<>> ELSE <<1>>)
         IN  Round(x.s * y.s, m, x.e - y.e + lx - ly - QuotientDigits * LimbBits - 1)

\* x < y on numbers; false when either is NaN, as every comparison with NaN is
FLess(x, y) ==
    IF IsNaN(x) \/ IsNaN(y) THEN FALSE
    ELSE LET d == FSub(x, y) IN ~IsZero(d) /\ d.s = -1

\* the binary64 value nearest to the decimal n / d (a literal such as 0.1)
Decimal(n, d) == FDiv(FromInt(n), FromInt(d))

\* ------------------------------------------------------------------------
\* pandas Series operations the pipeline uses (a Series is a sequence)

Range(s) == {s[i] : i \in 1..Len(s)}

\* Series.shift(1): every value one place later, NaN in the first place
Shift1(s) == [i \in 1..Len(s) |-> IF i = 1 THEN NaN ELSE s[i - 1]]

\* Series.rolling(window=3).mean(): NaN until the window holds 3 values.
\* The demands are integers, so the window's sum is exact however pandas
\* accumulates it, and the mean is that sum divided by 3, rounded once.
RollingMean3(s) ==
    [i \in 1..Len(s) |->
        IF i < 3 THEN NaN
        ELSE FDiv(FAdd(FAdd(s[i - 2], s[i - 1]), s[i]), FromInt(3))]

\* Series.sum(): NaN entries are skipped (count as 0); the entries are added
\* first to last, as numpy adds a series of fewer than 8 values
RECURSIVE SumFrom(_, _, _)
SumFrom(s, i, acc) ==
    IF i > Len(s) THEN acc
    ELSE SumFrom(s, i + 1, IF IsNaN(s[i]) THEN acc ELSE FAdd(acc, s[i]))

SeriesSum(s) == SumFrom(s, 1, Zero)

\* Series.count(): the entries that are not NaN
SeriesCount(s) == Cardinality({i \in 1..Len(s) : ~IsNaN(s[i])})

\* Series.mean(): the sum of the non-NaN entries over their count, NaN if none
SeriesMean(s) ==
    IF SeriesCount(s) = 0 THEN NaN ELSE FDiv(SeriesSum(s), FromInt(SeriesCount(s)))

SeriesAbs(s) == [i \in 1..Len(s) |-> FAbs(s[i])]

SeriesSquare(s) == [i \in 1..Len(s) |-> FMul(s[i], s[i])]

SeriesSub(s, t) == [i \in 1..Len(s) |-> FSub(s[i], t[i])]

\* ------------------------------------------------------------------------
\* The DataFrame: its columns in order, and each column's values

Methods == <<"Naive", "ThreeWeeksMA", "ExponentialSmoothing">>

HasColumn(df, name) == name \in Range(df.columns)

\* df[name] = values: an existing column is overwritten in place, a new one
\* is appended after the last column
SetColumn(df, name, values) ==
    [columns |-> IF HasColumn(df, name) THEN df.columns ELSE Append(df.columns, name),
     data    |-> [c \in DOMAIN df.data \cup {name} |->
                    IF c = name THEN values ELSE df.data[c]]]

\* df['Demand'] as float64 (the Excel column holds integers)
Demand(df) == [i \in 1..Len(df.data["Demand"]) |-> FromInt(df.data["Demand"][i])]

Rows(df) == Len(df.data["Week"])

\* pd.read_excel(file_path): a table with the columns Week and Demand
load_demand_data(weeks, demands) ==
    [columns |-> <<"Week", "Demand">>,
     data    |-> [c \in {"Week", "Demand"} |-> IF c = "Week" THEN weeks ELSE demands]]

\* ------------------------------------------------------------------------
\* Forecast functions

naive_forecast(df) == SetColumn(df, "Naive", Shift1(Demand(df)))

\* a slip: the window ends at the current week (the shift is forgotten)
three_weeks_moving_average_NoShift(df) ==
    SetColumn(df, "ThreeWeeksMA", RollingMean3(Demand(df)))

\* a slip: the moving average is written into the Naive column
three_weeks_moving_average_IntoNaive(df) ==
    SetColumn(df, "Naive", Shift1(RollingMean3(Demand(df))))

three_weeks_moving_average(df) ==
    SetColumn(df, "ThreeWeeksMA", Shift1(RollingMean3(Demand(df))))

\* a slip: the current week's demand is smoothed in, not the previous week's
RECURSIVE SmoothingLoop_CurrentDemand(_, _, _, _)
SmoothingLoop_CurrentDemand(demand, alpha, i, forecasts) ==
    IF i > Len(demand) THEN forecasts
    ELSE IF i = 1 THEN SmoothingLoop_CurrentDemand(demand, alpha, 2, <<demand[1]>>)
    ELSE SmoothingLoop_CurrentDemand(demand, alpha, i + 1,
            Append(forecasts,
                   FAdd(FMul(alpha, demand[i]),
                        FMul(FSub(FromInt(1), alpha), forecasts[i - 1]))))

\* the list forecasts after the loop has run for i = 0 .. n-1
RECURSIVE SmoothingLoop(_, _, _, _)
SmoothingLoop(demand, alpha, i, forecasts) ==
    IF i > Len(demand) THEN forecasts
    ELSE IF i = 1 THEN SmoothingLoop(demand, alpha, 2, <<demand[1]>>)
    ELSE SmoothingLoop(demand, alpha, i + 1,
            Append(forecasts,
                   FAdd(FMul(alpha, demand[i - 1]),
                        FMul(FSub(FromInt(1), alpha), forecasts[i - 1]))))

exponential_smoothing(df, alpha) ==
    SetColumn(df, "ExponentialSmoothing", SmoothingLoop(Demand(df), alpha, 1, <<>>))

\* ------------------------------------------------------------------------
\* Error metrics

ForecastErrors(df, forecast_col) == SeriesSub(Demand(df), df.data[forecast_col])

\* a slip: the undefined periods count in the divisor
mean_absolute_deviation_AllRows(df, forecast_col) ==
    FDiv(SeriesSum(SeriesAbs(ForecastErrors(df, forecast_col))), FromInt(Rows(df)))

mean_absolute_deviation(df, forecast_col) ==
    SeriesMean(SeriesAbs(ForecastErrors(df, forecast_col)))

mean_squared_error(df, forecast_col) ==
    SeriesMean(SeriesSquare(ForecastErrors(df, forecast_col)))

\* a slip: a zero MAD gives a tracking signal of 0
tracking_signal_ZeroWhenFlat(df, forecast_col) ==
    LET errors == ForecastErrors(df, forecast_col)
        mad    == SeriesMean(SeriesAbs(errors))
    IN  IF mad # Zero THEN FDiv(SeriesSum(errors), mad) ELSE Zero

tracking_signal(df, forecast_col) ==
    LET errors == ForecastErrors(df, forecast_col)
        mad    == SeriesMean(SeriesAbs(errors))
    IN  IF mad # Zero THEN FDiv(SeriesSum(errors), mad) ELSE NaN

\* ------------------------------------------------------------------------
\* Best forecast

Raise(exception, message) == [raised |-> exception, message |-> message]

Return(value) == [returned |-> value]

Raised(outcome) == "raised" \in DOMAIN outcome

\* the columns of df other than Week and Demand, in the order of df.columns
ForecastCols(df) == SelectSeq(df.columns, LAMBDA c : c \notin {"Week", "Demand"})

\* min(errors, key=errors.get): the first key stays the best until a later
\* one compares strictly less (no comparison with NaN is true)
RECURSIVE MinKey(_, _, _, _)
MinKey(keys, errors, i, best) ==
    IF i > Len(keys) THEN best
    ELSE MinKey(keys, errors, i + 1,
                IF FLess(errors[keys[i]], errors[best]) THEN keys[i] ELSE best)

\* best_col = min(errors, key=errors.get); return best_col, errors[best_col]
BestOf(forecast_cols, errors) ==
    LET best_col == MinKey(forecast_cols, errors, 2, forecast_cols[1])
    IN  Return(<<best_col, errors[best_col]>>)

\* a slip: any criterion other than MAD is taken to be MSE
best_forecast_DefaultsToMSE(df, method) ==
    LET forecast_cols == ForecastCols(df)
        errors == [col \in Range(forecast_cols) |->
                     IF method = "MAD" THEN mean_absolute_deviation(df, col)
                     ELSE mean_squared_error(df, col)]
    IN  IF forecast_cols = <<>>
        THEN Raise("ValueError", "min() arg is an empty sequence")
        ELSE BestOf(forecast_cols, errors)

best_forecast(df, method) ==
    LET forecast_cols == ForecastCols(df)
        errors == [col \in Range(forecast_cols) |->
                     IF method = "MAD" THEN mean_absolute_deviation(df, col)
                     ELSE mean_squared_error(df, col)]
    IN  IF forecast_cols # <<>> /\ method \notin {"MAD", "MSE"}
        THEN Raise("ValueError", "Method must be 'MAD' or 'MSE'")
        ELSE IF forecast_cols = <<>>
        THEN Raise("ValueError", "min() arg is an empty sequence")
        ELSE BestOf(forecast_cols, errors)

\* the dictionary of the two results; an exception of either call passes through
BestMethods(mad, mse) ==
    IF Raised(mad) THEN mad
    ELSE IF Raised(mse) THEN mse
    ELSE Return([BestByMAD |-> mad.returned, BestByMSE |-> mse.returned])

get_best_methods(df) == BestMethods(best_forecast(df, "MAD"), best_forecast(df, "MSE"))

\* ------------------------------------------------------------------------
\* Forecast next week

SeqMax(s) == CHOOSE x \in Range(s) : \A y \in Range(s) : y <= x

\* a slip: the last two values
Last3_OffByOne(s) == SubSeq(s, IF Len(s) > 2 THEN Len(s) - 1 ELSE 1, Len(s))

\* Series.iloc[-3:]: the last three values, all of them if there are fewer
Last3(s) == SubSeq(s, IF Len(s) > 3 THEN Len(s) - 2 ELSE 1, Len(s))

\* a slip: without a smoothing column the last demand seeds the projection
forecast_next_week_SeedsWithDemand(df, alpha) ==
    LET demand == Demand(df)
        n      == Rows(df)
        three_weeks_ma == IF n >= 3 THEN SeriesMean(Last3(demand)) ELSE SeriesMean(demand)
        last_forecast  == IF HasColumn(df, "ExponentialSmoothing")
                          THEN df.data["ExponentialSmoothing"][n] ELSE demand[n]
    IN  Return([Week |-> SeqMax(df.data["Week"]) + 1,
                Naive |-> demand[n],
                ThreeWeeksMA |-> three_weeks_ma,
                ExponentialSmoothing |->
                   FAdd(FMul(alpha, demand[n]),
                        FMul(FSub(FromInt(1), alpha), last_forecast))])

forecast_next_week(df, alpha) ==
    LET demand == Demand(df)
        n      == Rows(df)
        three_weeks_ma == IF n >= 3 THEN SeriesMean(Last3(demand)) ELSE SeriesMean(demand)
    IN  IF ~HasColumn(df, "ExponentialSmoothing")
        THEN Raise("KeyError", "ExponentialSmoothing")
        ELSE Return([Week |-> SeqMax(df.data["Week"]) + 1,
                     Naive |-> demand[n],
                     ThreeWeeksMA |-> three_weeks_ma,
                     ExponentialSmoothing |->
                        FAdd(FMul(alpha, demand[n]),
                             FMul(FSub(FromInt(1), alpha),
                                  df.data["ExponentialSmoothing"][n]))])

\* ------------------------------------------------------------------------
\* DataFrame views

\* df[[names]]: the named columns in the order asked, KeyError on a missing one
Select(df, names) ==
    IF \E i \in 1..Len(names) : ~HasColumn(df, names[i])
    THEN Raise("KeyError", CHOOSE c \in Range(names) : ~HasColumn(df, c))
    ELSE Return([columns |-> names, data |-> [c \in Range(names) |-> df.data[c]]])

get_actual_demand(df) == Select(df, <<"Week", "Demand">>)

get_all_forecasts(df) == Select(df, <<"Week", "Demand">> \o Methods)

get_error_table(df) ==
    IF \E i \in 1..Len(Methods) : ~HasColumn(df, Methods[i])
    THEN Raise("KeyError", Methods[CHOOSE i \in 1..Len(Methods) :
                                     /\ ~HasColumn(df, Methods[i])
                                     /\ \A j \in 1..(i - 1) : HasColumn(df, Methods[j])])
    ELSE Return([i \in 1..Len(Methods) |->
                   [Method |-> Methods[i],
                    MAD    |-> mean_absolute_deviation(df, Methods[i]),
                    MSE    |-> mean_squared_error(df, Methods[i]),
                    TS     |-> tracking_signal(df, Methods[i])]])

\* ------------------------------------------------------------------------
\* The inputs

MaxLen == 4

DemandValues == {10, 13}

ExampleDemand == <<10, 12, 11, 13>>

RECURSIVE SeqsOfLen(_, _)
SeqsOfLen(S, n) ==
    IF n = 0 THEN {<<>>}
    ELSE {Append(s, x) : s \in SeqsOfLen(S, n - 1), x \in S}

DemandHistories ==
    UNION {SeqsOfLen(DemandValues, n) : n \in 1..MaxLen} \cup {ExampleDemand}

DefaultAlpha == Decimal(1, 10)

Alphas == {DefaultAlpha, Decimal(1, 2)}

Criteria == {"MAD", "MSE", "RMSE"}

\* ------------------------------------------------------------------------
\* The program: a caller that loads the table and then calls the functions
\* one at a time, taking each call's outcome before the next call

VARIABLES
    loaded,     \* the table read from the Excel file
    df,         \* the DataFrame the functions work on
    smoothing,  \* the alpha of the last exponential_smoothing call, if any
    call,       \* the function called last and its arguments
    outcome     \* what that call returned or raised; Idle once taken

vars == <<loaded, df, smoothing, call, outcome>>

Idle == [idle |-> TRUE]

NoSmoothing == [k |-> "none"]

NoCall == [fn |-> "none"]

Init ==
    /\ \E demands \in DemandHistories :
          loaded = load_demand_data([i \in 1..Len(demands) |-> i], demands)
    /\ df = loaded
    /\ smoothing = NoSmoothing
    /\ call = NoCall
    /\ outcome = Idle

CallNaive ==
    /\ outcome = Idle
    /\ df' = naive_forecast(df)
    /\ call' = [fn |-> "naive_forecast"]
    /\ outcome' = Return("df")
    /\ UNCHANGED <<loaded, smoothing>>

CallThreeWeeksMA ==
    /\ outcome = Idle
    /\ df' = three_weeks_moving_average(df)
    /\ call' = [fn |-> "three_weeks_moving_average"]
    /\ outcome' = Return("df")
    /\ UNCHANGED <<loaded, smoothing>>

CallExponentialSmoothing ==
    /\ outcome = Idle
    /\ \E alpha \in Alphas :
          /\ df' = exponential_smoothing(df, alpha)
          /\ smoothing' = alpha
          /\ call' = [fn |-> "exponential_smoothing", alpha |-> alpha]
    /\ outcome' = Return("df")
    /\ UNCHANGED loaded

CallErrorTable ==
    /\ outcome = Idle
    /\ call' = [fn |-> "get_error_table"]
    /\ outcome' = get_error_table(df)
    /\ UNCHANGED <<loaded, df, smoothing>>

CallBestForecast ==
    /\ outcome = Idle
    /\ \E method \in Criteria :
          /\ call' = [fn |-> "best_forecast", method |-> method]
          /\ outcome' = best_forecast(df, method)
    /\ UNCHANGED <<loaded, df, smoothing>>

CallBestMethods ==
    /\ outcome = Idle
    /\ call' = [fn |-> "get_best_methods"]
    /\ outcome' = get_best_methods(df)
    /\ UNCHANGED <<loaded, df, smoothing>>

CallForecastNextWeek ==
    /\ outcome = Idle
    /\ \E alpha \in Alphas :
          /\ call' = [fn |-> "forecast_next_week", alpha |-> alpha]
          /\ outcome' = forecast_next_week(df, alpha)
    /\ UNCHANGED <<loaded, df, smoothing>>

CallActualDemand ==
    /\ outcome = Idle
    /\ call' = [fn |-> "get_actual_demand"]
    /\ outcome' = get_actual_demand(df)
    /\ UNCHANGED <<loaded, df, smoothing>>

CallAllForecasts ==
    /\ outcome = Idle
    /\ call' = [fn |-> "get_all_forecasts"]
    /\ outcome' = get_all_forecasts(df)
    /\ UNCHANGED <<loaded, df, smoothing>>

\* the caller takes the outcome (assigns or displays it, or handles the
\* exception) and is ready for its next call
TakeOutcome ==
    /\ outcome # Idle
    /\ outcome' = Idle
    /\ call' = NoCall
    /\ UNCHANGED <<loaded, df, smoothing>>

Next ==
    \/ CallNaive
    \/ CallThreeWeeksMA
    \/ CallExponentialSmoothing
    \/ CallErrorTable
    \/ CallBestForecast
    \/ CallBestMethods
    \/ CallForecastNextWeek
    \/ CallActualDemand
    \/ CallAllForecasts
    \/ TakeOutcome

Spec == Init /\ [][Next]_vars

\* ------------------------------------------------------------------------
\* What the properties below speak of

One == FromInt(1)

Three == FromInt(3)

AllComputed == \A i \in 1..Len(Methods) : HasColumn(df, Methods[i])

Called(fn) == call.fn = fn /\ outcome # Idle

Returned(fn) == Called(fn) /\ ~Raised(outcome)

\* the indices at which the demand and the forecast are both defined
ValidIndices(col) == {i \in 1..Rows(df) : ~IsNaN(df.data[col][i])}

SetMax(S) == CHOOSE x \in S : \A y \in S : y <= x

\* the sum of e over the indices S, smallest index first
RECURSIVE SumOver(_, _)
SumOver(e, S) ==
    IF S = {} THEN Zero
    ELSE FAdd(SumOver(e, S \ {SetMax(S)}), e[SetMax(S)])

\* the mean of e over the indices S, undefined when there are none
MeanOver(e, S) ==
    IF S = {} THEN NaN ELSE FDiv(SumOver(e, S), FromInt(Cardinality(S)))

\* demand[i] - forecast[i] of the method col
ErrorAt(col, i) == FSub(FromInt(df.data["Demand"][i]), df.data[col][i])

Errors(col) == [i \in 1..Rows(df) |-> ErrorAt(col, i)]

AbsErrors(col) == [i \in 1..Rows(df) |-> FAbs(ErrorAt(col, i))]

SquaredErrors(col) ==
    [i \in 1..Rows(df) |-> LET error == ErrorAt(col, i) IN FMul(error, error)]

MetricOf(criterion, col) ==
    IF criterion = "MAD" THEN MeanOver(AbsErrors(col), ValidIndices(col))
    ELSE MeanOver(SquaredErrors(col), ValidIndices(col))

\* ------------------------------------------------------------------------
\* C1

SmoothingFollowsRecurrence ==
    HasColumn(df, "ExponentialSmoothing") =>
        LET forecast == df.data["ExponentialSmoothing"]
            demand   == df.data["Demand"]
            n        == Rows(df)
        IN  /\ Len(forecast) = n
            /\ \A i \in 1..n : ~IsNaN(forecast[i])
            /\ forecast[1] = FromInt(demand[1])
            /\ \A i \in 2..n :
                  forecast[i] = FAdd(FMul(smoothing, FromInt(demand[i - 1])),
                                     FMul(FSub(One, smoothing), forecast[i - 1]))

SmoothingOfExample(expected) ==
    (/\ HasColumn(df, "ExponentialSmoothing")
     /\ df.data["Demand"] = ExampleDemand
     /\ smoothing = DefaultAlpha)
        => df.data["ExponentialSmoothing"] = expected

\* C1 (as amended): exponential_smoothing gives n defined entries with
\* forecast[0] = demand[0] and forecast[i] = alpha * demand[i-1] +
\* (1-alpha) * forecast[i-1] for 1 <= i < n; demand [10,12,11,13] with alpha
\* 0.1 gives [10, 10, 10.2, 10.28].
C1_SmoothingRecurrence ==
    /\ SmoothingFollowsRecurrence
    /\ SmoothingOfExample(<<FromInt(10), FromInt(10), Decimal(102, 10), Decimal(1028, 100)>>)

\* C1 as claimed: the same recurrence, with demand [10,12,11,13] and alpha 0.1
\* giving [10, 10.2, 10.38, 10.412].
C1_AsClaimed ==
    /\ SmoothingFollowsRecurrence
    /\ SmoothingOfExample(<<FromInt(10), Decimal(102, 10), Decimal(1038, 100),
                            Decimal(10412, 1000)>>)

C1_Witness ==
    /\ HasColumn(df, "ExponentialSmoothing")
    /\ df.data["Demand"] = ExampleDemand
    /\ smoothing = DefaultAlpha

\* ------------------------------------------------------------------------
\* C2: three_weeks_moving_average leaves forecast[i] undefined for i < 3 and
\* sets forecast[i] = mean(demand[i-3], demand[i-2], demand[i-1]) for i >= 3,
\* so the column has n-3 defined entries when n >= 3 and none when n < 3.
\* (Indices here start at 1, the source's at 0.)
C2_TrailingWindow ==
    HasColumn(df, "ThreeWeeksMA") =>
        LET forecast == df.data["ThreeWeeksMA"]
            demand   == Demand(df)
            n        == Rows(df)
        IN  /\ Len(forecast) = n
            /\ \A i \in 1..n :
                  IF i <= 3 THEN IsNaN(forecast[i])
                  ELSE forecast[i] =
                         FDiv(FAdd(FAdd(demand[i - 3], demand[i - 2]), demand[i - 1]), Three)
            /\ Cardinality(ValidIndices("ThreeWeeksMA")) = IF n >= 3 THEN n - 3 ELSE 0

C2_Witness ==
    /\ HasColumn(df, "ThreeWeeksMA")
    /\ Rows(df) >= 4
    /\ \E i \in 1..Rows(df) : df.data["ThreeWeeksMA"][i] # FromInt(df.data["Demand"][i])
                              /\ ~IsNaN(df.data["ThreeWeeksMA"][i])

\* ------------------------------------------------------------------------
\* C3: MAD is the mean of |demand[i] - forecast[i]| and MSE the mean of
\* (demand[i] - forecast[i])^2 over exactly the indices where the forecast is
\* defined; the undefined periods add nothing to the sum or to the divisor.
C3_MetricsOverValidIndices ==
    /\ Returned("get_error_table") =>
          \A i \in 1..Len(outcome.returned) :
             LET row == outcome.returned[i]
             IN  /\ row.MAD = MeanOver(AbsErrors(row.Method), ValidIndices(row.Method))
                 /\ row.MSE = MeanOver(SquaredErrors(row.Method), ValidIndices(row.Method))
    /\ (Returned("best_forecast") /\ call.method \in {"MAD", "MSE"}) =>
          outcome.returned[2] = MetricOf(call.method, outcome.returned[1])

C3_Witness ==
    /\ Returned("get_error_table")
    /\ Rows(df) >= 4
    /\ \A i \in 1..Len(outcome.returned) :
          /\ ~IsNaN(outcome.returned[i].MAD)
          /\ outcome.returned[i].MAD # Zero

\* ------------------------------------------------------------------------
\* C4: the tracking signal is sum(demand[i] - forecast[i]) over the valid
\* indices divided by MAD when MAD is not zero, and the undefined value when
\* MAD = 0; get_error_table on the computed columns returns one row per
\* method, in the fixed order, whatever the MADs are.
C4_TrackingSignalGuarded ==
    /\ Returned("get_error_table") =>
          \A i \in 1..Len(outcome.returned) :
             LET row == outcome.returned[i]
                 sum == SumOver(Errors(row.Method), ValidIndices(row.Method))
             IN  /\ row.MAD = Zero => IsNaN(row.TS)
                 /\ IsNaN(row.MAD) => IsNaN(row.TS)
                 /\ (~IsNaN(row.MAD) /\ row.MAD # Zero) =>
                        (row.TS = FDiv(sum, row.MAD) /\ ~IsNaN(row.TS))
    /\ (Called("get_error_table") /\ AllComputed) =>
          /\ ~Raised(outcome)
          /\ Len(outcome.returned) = Len(Methods)
          /\ \A i \in 1..Len(Methods) : outcome.returned[i].Method = Methods[i]

C4_Witness ==
    /\ Returned("get_error_table")
    /\ \E i \in 1..Len(outcome.returned) : outcome.returned[i].MAD = Zero
    /\ \E i \in 1..Len(outcome.returned) :
          ~IsNaN(outcome.returned[i].MAD) /\ outcome.returned[i].MAD # Zero

\* ------------------------------------------------------------------------
\* C5 as claimed: on a store with the three forecast columns, in whatever
\* order they were computed, best_forecast(criterion) returns (method, value)
\* with value the minimum of the metric over the methods and method the first
\* of Naive, ThreeWeeksMA, ExponentialSmoothing that attains it.
C5_AsClaimed ==
    (Called("best_forecast") /\ call.method \in {"MAD", "MSE"} /\ AllComputed) =>
        LET metric  == [i \in 1..Len(Methods) |-> MetricOf(call.method, Methods[i])]
            defined == {i \in 1..Len(Methods) : ~IsNaN(metric[i])}
            minimal == {i \in defined : \A j \in defined : ~FLess(metric[j], metric[i])}
            first   == CHOOSE i \in minimal : \A j \in minimal : i <= j
        IN  /\ ~Raised(outcome)
            /\ defined # {}
            /\ outcome.returned = <<Methods[first], metric[first]>>

\* ------------------------------------------------------------------------
\* C6 as claimed: when the demand is the same constant c in every week, every
\* defined entry of the three forecast columns equals c, and the error table
\* reports MAD exactly 0, MSE exactly 0 and an undefined tracking signal for
\* each of the three methods.
C6_AsClaimed ==
    (\A i \in 1..Rows(df) : df.data["Demand"][i] = df.data["Demand"][1]) =>
        /\ \A m \in Range(ForecastCols(df)) : \A i \in ValidIndices(m) :
              df.data[m][i] = FromInt(df.data["Demand"][1])
        /\ Called("get_error_table") /\ AllComputed =>
              /\ ~Raised(outcome)
              /\ \A i \in 1..Len(outcome.returned) :
                    /\ outcome.returned[i].MAD = Zero
                    /\ outcome.returned[i].MSE = Zero
                    /\ IsNaN(outcome.returned[i].TS)

\* ------------------------------------------------------------------------
\* C7: forecast_next_week returns one record with week = max(week) + 1, Naive
\* the last demand, and ThreeWeeksMA the mean of the last 3 demands when there
\* are at least 3 records and the mean of all of them when there are 1 or 2;
\* demand [10,12,11,13] gives Naive 13 and ThreeWeeksMA 12.
C7_NextWeekRecord ==
    Returned("forecast_next_week") =>
        LET record == outcome.returned
            demand == Demand(df)
            n      == Rows(df)
        IN  /\ \A i \in 1..n : df.data["Week"][i] < record.Week
            /\ \E i \in 1..n : df.data["Week"][i] + 1 = record.Week
            /\ record.Naive = demand[n]
            /\ n >= 3 => record.ThreeWeeksMA =
                            FDiv(FAdd(FAdd(demand[n - 2], demand[n - 1]), demand[n]), Three)
            /\ n < 3 => record.ThreeWeeksMA = MeanOver(demand, 1..n)
            /\ df.data["Demand"] = ExampleDemand =>
                  (record.Naive = FromInt(13) /\ record.ThreeWeeksMA = FromInt(12))

C7_Witness ==
    /\ Returned("forecast_next_week")
    /\ Rows(df) > 3
    /\ outcome.returned.ThreeWeeksMA # MeanOver(Demand(df), 1..Rows(df))

\* ------------------------------------------------------------------------
\* C8: forecast_next_week(alpha) called before exponential_smoothing has
\* filled the ExponentialSmoothing column fails with an error and returns no
\* record; called after it, its ExponentialSmoothing value is
\* alpha * demand[last] + (1-alpha) * forecast[last] with forecast[last] the
\* stored smoothing value at the last index.
C8_ProjectionNeedsSmoothing ==
    Called("forecast_next_week") =>
        IF smoothing = NoSmoothing
        THEN Raised(outcome)
        ELSE /\ ~Raised(outcome)
             /\ outcome.returned.ExponentialSmoothing =
                   FAdd(FMul(call.alpha, FromInt(df.data["Demand"][Rows(df)])),
                        FMul(FSub(One, call.alpha),
                             df.data["ExponentialSmoothing"][Rows(df)]))

C8_Witness ==
    /\ Called("forecast_next_week")
    /\ smoothing = NoSmoothing
    /\ HasColumn(df, "Naive")
    /\ Raised(outcome)

\* ------------------------------------------------------------------------
\* C9: best_forecast with a criterion other than MAD and MSE raises an error
\* and returns no pair, whether no, some or all forecast columns have been
\* computed, and leaves the store unchanged.
C9_UnknownCriterionRaises ==
    [][(call'.fn = "best_forecast" /\ outcome' # Idle
            /\ call'.method \notin {"MAD", "MSE"})
        => (Raised(outcome') /\ outcome'.raised = "ValueError" /\ df' = df)]_vars

C9_Witness ==
    /\ Called("best_forecast")
    /\ call.method \notin {"MAD", "MSE"}
    /\ ForecastCols(df) = <<>>
    /\ Raised(outcome)

\* ------------------------------------------------------------------------
\* C10: each of naive_forecast, three_weeks_moving_average and
\* exponential_smoothing writes only its own forecast column; every other
\* function leaves the whole store unchanged; so week and demand always equal
\* the loaded series.
OwnColumn(fn) ==
    IF fn = "naive_forecast" THEN "Naive"
    ELSE IF fn = "three_weeks_moving_average" THEN "ThreeWeeksMA"
    ELSE "ExponentialSmoothing"

EngineFns == {"naive_forecast", "three_weeks_moving_average", "exponential_smoothing"}

C10_StoreChangedOnlyByEngine ==
    [][/\ df'.data["Week"] = loaded.data["Week"]
       /\ df'.data["Demand"] = loaded.data["Demand"]
       /\ call'.fn \in EngineFns =>
             /\ DOMAIN df'.data = DOMAIN df.data \cup {OwnColumn(call'.fn)}
             /\ \A c \in DOMAIN df.data : c # OwnColumn(call'.fn) => df'.data[c] = df.data[c]
       /\ call'.fn \notin EngineFns => df' = df]_vars

C10_Witness ==
    /\ AllComputed
    /\ Returned("get_best_methods")
    /\ df.data["Week"] = loaded.data["Week"]
    /\ df.data["Demand"] = loaded.data["Demand"]

====
